---- MODULE Spec2Model ----
(***************************************************************************)
(* The pre-propose base contract (dao-pre-propose-base, execute.rs): who   *)
(* may submit a proposal, the deposit escrowed per proposal, its release   *)
(* when the proposal completes, the hook registry and the DAO-only         *)
(* administration.  One transaction is one top-level handler call plus the *)
(* depth-first dispatch of the messages its response carries.              *)
(***************************************************************************)
EXTENDS Integers, Sequences, FiniteSets, TLC

\* ------------------------------------------------------------------ bounds
\* Cap on the proposal ids the proposal module hands out.
MaxProposals == 2

\* --------------------------------------------------------------- universe
DaoAddr == "dao"
ModuleAddr == "pm"
ContractAddr == "pre_propose"
Users == {"a", "b"}
Addrs == {DaoAddr, ModuleAddr} \cup Users
ProposalIds == 1..MaxProposals

\* Option<T> is a set with at most one element.
None == {}
Some(x) == {x}
IsSome(o) == o # {}
Get(o) == CHOOSE x \in o : TRUE

RefundPolicies == {"Always", "OnlyPassed", "Never"}
TerminalStatuses == {"Closed", "Executed", "Vetoed"}
Statuses == TerminalStatuses \cup {"Open", "Rejected", "Passed", "ExecutionFailed"}

Native(d) == [kind |-> "native", id |-> d]
Cw20(a) == [kind |-> "cw20", id |-> a]
Denoms == {Native("x"), Cw20("tok")}

DepositInfo(d, n, r) == [denom |-> d, amount |-> n, refund_policy |-> r]

Anyone(deny) == [kind |-> "Anyone", denylist |-> deny]
Specific(dm, allow, deny) ==
    [kind |-> "Specific", dao_members |-> dm, allowlist |-> allow, denylist |-> deny]

\* ---------------------------------------------------------------- versions
\* A semantic version; pre tells whether it carries a pre-release tag.
Version(major, minor, patch, pre) ==
    [major |-> major, minor |-> minor, patch |-> patch, pre |-> pre]

\* CARGO_PKG_VERSION of the code.
CONTRACT_VERSION == Version(2, 5, 0, FALSE)

\* ------------------------------------------------------- submission policy
\* The voting-power oracle's answer to VotingPowerAtHeight: a power, or a
\* failed query.
OracleAnswer(ok, power) == [ok |-> ok, power |-> power]

\* Mutant: the allowlist is consulted before the denylist.
check_allowlist_first(cfg, who, vp) ==
    LET p == cfg.submission_policy IN
    IF p.kind = "Anyone"
    THEN IF who \notin p.denylist THEN "Ok" ELSE "Unauthorized"
    ELSE IF who \in p.allowlist THEN "Ok"
         ELSE IF who \notin p.denylist /\ p.dao_members
              THEN IF ~vp.ok THEN "Std"
                   ELSE IF vp.power # 0 THEN "Ok" ELSE "Unauthorized"
              ELSE "Unauthorized"

\* Mutant: membership of the DAO is taken for granted, the power is not read.
check_without_power(cfg, who, vp) ==
    LET p == cfg.submission_policy IN
    IF who \in p.denylist THEN "Unauthorized"
    ELSE IF p.kind = "Anyone" THEN "Ok"
    ELSE IF who \in p.allowlist \/ p.dao_members THEN "Ok"
    ELSE "Unauthorized"

check_can_submit(cfg, who, vp) ==
    LET p == cfg.submission_policy IN
    IF p.kind = "Anyone"
    THEN IF who \notin p.denylist THEN "Ok" ELSE "Unauthorized"
    ELSE IF who \notin p.denylist
         THEN IF who \in p.allowlist
              THEN "Ok"
              ELSE IF p.dao_members
                   THEN IF ~vp.ok
                        THEN "Std"
                        ELSE IF vp.power # 0 THEN "Ok" ELSE "Unauthorized"
                   ELSE "Unauthorized"
         ELSE "Unauthorized"

\* Err(PreProposeSubmissionPolicyError) of validate(): a Specific policy
\* that lets nobody submit contradicts itself.
validate(p) ==
    IF p.kind = "Specific" /\ ~p.dao_members /\ p.allowlist = {}
    THEN "NoOneAllowed"
    ELSE "Ok"

\* add_and_remove_addresses on a deduplicated list: adding an address that
\* is already present is an error, removing an absent one is a no-op.
add_and_remove_addresses(list, add, remove) ==
    LET dup == IsSome(add) /\ Get(add) \cap list # {}
        added == IF IsSome(add) THEN list \cup Get(add) ELSE list
        removed == IF IsSome(remove) THEN added \ Get(remove) ELSE added
    IN  [err |-> IF dup THEN "DuplicateAddress" ELSE "Ok", list |-> removed]

\* ----------------------------------------------------------- deposit info
\* UncheckedDepositInfo::into_checked: the amount must be positive.
into_checked(unchecked) ==
    IF unchecked.amount = 0 THEN "ZeroDeposit" ELSE "Ok"

\* funds: Option<Coin>, the native coin attached to the call.
check_native_deposit_paid(di, funds) ==
    IF di.denom.kind = "native"
    THEN LET paid == IF IsSome(funds) /\ Get(funds).denom = di.denom.id
                     THEN Get(funds).amount ELSE 0
         IN  IF IsSome(funds) /\ Get(funds).denom # di.denom.id
             THEN "WrongDenom"
             ELSE IF paid = di.amount THEN "Ok" ELSE "InvalidDeposit"
    ELSE "Ok"

TransferFromMsg(token, owner, recipient, amount) ==
    [type |-> "transfer_from", denom |-> token, owner |-> owner,
     to |-> recipient, amount |-> amount]

TransferMsg(denom, to, amount) ==
    [type |-> "transfer", denom |-> denom, to |-> to, amount |-> amount]

get_take_deposit_messages(di, depositor, contract) ==
    IF di.denom.kind = "cw20" /\ di.amount # 0
    THEN <<TransferFromMsg(di.denom, depositor, contract, di.amount)>>
    ELSE <<>>

get_return_deposit_message(di, to) ==
    IF di.amount = 0 THEN <<>> ELSE <<TransferMsg(di.denom, to, di.amount)>>

\* ------------------------------------------------------------------ hooks
Range(s) == {s[i] : i \in 1..Len(s)}

HookMsg(a, payload) == [type |-> "hook", to |-> a, payload |-> payload]

prepare_hooks(hs, payload) == [i \in 1..Len(hs) |-> HookMsg(hs[i], payload)]

add_hook(hs, a) ==
    IF a \in Range(hs)
    THEN [err |-> "HookAlreadyRegistered", hooks |-> hs]
    ELSE [err |-> "Ok", hooks |-> Append(hs, a)]

remove_hook(hs, a) ==
    [err |-> "Ok", hooks |-> SelectSeq(hs, LAMBDA h : h # a)]

\* ------------------------------------------------------------------ state
VARIABLES
    config,                    \* Item<Config>
    deposits,                  \* Map<u64, (Option<CheckedDepositInfo>, Addr)>
    proposal_submitted_hooks,  \* Hooks, in registration order
    dao,                       \* Item<Addr>
    proposal_module,           \* Item<Addr>
    contract_version,          \* cw2: the version of the code that wrote the state
    next_proposal_id,          \* the proposal module's NextProposalId
    created,                   \* proposals the proposal module has created
    voting_power,              \* the oracle: address -> power
    balance,                   \* what the contract holds, per denomination
    released,                  \* ids whose deposit release has been paid out
    call,                      \* the handler call of the running transaction
    before,                    \* the storage when that call started
    response,                  \* what the handler returned
    queue                      \* messages of the transaction not yet dispatched

storage_vars ==
    <<config, deposits, proposal_submitted_hooks, dao, proposal_module, contract_version>>
env_vars == <<next_proposal_id, created, voting_power, balance, released>>
tx_vars == <<call, before, response, queue>>
vars == <<storage_vars, env_vars, tx_vars>>

Storage ==
    [config |-> config, deposits |-> deposits, hooks |-> proposal_submitted_hooks,
     dao |-> dao, proposal_module |-> proposal_module,
     contract_version |-> contract_version]

Result(err, msgs, st) == [err |-> err, msgs |-> msgs, st |-> st]

\* ------------------------------------------------------- execute_propose
ProposeMsg(to, payload, sender, next_id) ==
    [type |-> "propose", to |-> to, payload |-> payload,
     \* not on the wire: which submit emitted the message
     sender |-> sender, next_id |-> next_id]

\* Mutants of the order of the response: the hooks ahead of the proposal
\* creation, and the deposit-take ahead of the hooks.
ProposeResponseHooksFirst(propose_message, hooks_msgs, deposit_messages) ==
    hooks_msgs \o <<propose_message>> \o deposit_messages

ProposeResponseDepositFirst(propose_message, hooks_msgs, deposit_messages) ==
    <<propose_message>> \o deposit_messages \o hooks_msgs

ProposeResponseMessages(propose_message, hooks_msgs, deposit_messages) ==
    <<propose_message>> \o hooks_msgs \o deposit_messages

\* Mutant: the funds sent along are not compared with the deposit.
propose_funds_unchecked(st, sender, funds, payload, vp, next_id) ==
    LET auth == check_can_submit(st.config, sender, vp)
        di == st.config.deposit_info
        deposit_messages ==
            IF IsSome(di)
            THEN get_take_deposit_messages(Get(di), sender, ContractAddr)
            ELSE <<>>
        propose_message == ProposeMsg(st.proposal_module, payload, sender, next_id)
        hooks_msgs == prepare_hooks(st.hooks, payload)
    IN  IF auth # "Ok" THEN Result(auth, <<>>, st)
        ELSE Result("Ok",
                    ProposeResponseMessages(propose_message, hooks_msgs, deposit_messages),
                    [st EXCEPT !.deposits[next_id] =
                        Some([deposit_info |-> di, proposer |-> sender])])

execute_propose(st, sender, funds, payload, vp, next_id) ==
    LET auth == check_can_submit(st.config, sender, vp)
        di == st.config.deposit_info
        paid == IF IsSome(di) THEN check_native_deposit_paid(Get(di), funds) ELSE "Ok"
        deposit_messages ==
            IF IsSome(di)
            THEN get_take_deposit_messages(Get(di), sender, ContractAddr)
            ELSE <<>>
        propose_message == ProposeMsg(st.proposal_module, payload, sender, next_id)
        hooks_msgs == prepare_hooks(st.hooks, payload)
    IN  IF auth # "Ok" THEN Result(auth, <<>>, st)
        ELSE IF paid # "Ok" THEN Result(paid, <<>>, st)
        ELSE Result("Ok",
                    ProposeResponseMessages(propose_message, hooks_msgs, deposit_messages),
                    [st EXCEPT !.deposits[next_id] =
                        Some([deposit_info |-> di, proposer |-> sender])])

\* ------------------------------------------ execute_proposal_completed_hook
\* Mutant: a passed proposal counts as completed.
IsCompletedOrPassed(new_status) ==
    ~(new_status # "Closed" /\ new_status # "Executed" /\ new_status # "Vetoed"
      /\ new_status # "Passed")

IsCompleted(new_status) ==
    ~(new_status # "Closed" /\ new_status # "Executed" /\ new_status # "Vetoed")

\* Mutant: OnlyPassed refunds whatever the status.
should_refund_unless_never(new_status, refund_policy) ==
    refund_policy # "Never"

should_refund_to_proposer(new_status, refund_policy) ==
    IF new_status = "Executed" /\ refund_policy = "OnlyPassed" THEN TRUE
    ELSE IF refund_policy = "OnlyPassed" THEN FALSE
    ELSE IF refund_policy = "Always" THEN TRUE
    ELSE FALSE

ReturnDepositMessages(st, deposit_info, proposer, new_status) ==
    IF should_refund_to_proposer(new_status, deposit_info.refund_policy)
    THEN get_return_deposit_message(deposit_info, proposer)
    ELSE get_return_deposit_message(deposit_info, st.dao)

\* Mutant: the record of a resolved proposal is removed.
completed_hook_removing_record(st, sender, id, new_status) ==
    IF sender # st.proposal_module THEN Result("NotModule", <<>>, st)
    ELSE IF ~IsCompleted(new_status) THEN Result("NotCompleted", <<>>, st)
    ELSE IF IsSome(st.deposits[id])
         THEN LET rec == Get(st.deposits[id])
              IN  Result("Ok",
                         IF IsSome(rec.deposit_info)
                         THEN ReturnDepositMessages(st, Get(rec.deposit_info),
                                                    rec.proposer, new_status)
                         ELSE <<>>,
                         [st EXCEPT !.deposits[id] = None])
         ELSE Result("Ok", <<>>, st)

\* Mutant: an id without a deposit record is an error.
completed_hook_requires_record(st, sender, id, new_status) ==
    IF sender # st.proposal_module THEN Result("NotModule", <<>>, st)
    ELSE IF ~IsCompleted(new_status) THEN Result("NotCompleted", <<>>, st)
    ELSE IF IsSome(st.deposits[id])
         THEN LET rec == Get(st.deposits[id])
              IN  Result("Ok",
                         IF IsSome(rec.deposit_info)
                         THEN ReturnDepositMessages(st, Get(rec.deposit_info),
                                                    rec.proposer, new_status)
                         ELSE <<>>,
                         st)
         ELSE Result("Std", <<>>, st)

\* Mutant: the deposit is resolved by the deposit info of the current config.
completed_hook_by_current_config(st, sender, id, new_status) ==
    IF sender # st.proposal_module THEN Result("NotModule", <<>>, st)
    ELSE IF ~IsCompleted(new_status) THEN Result("NotCompleted", <<>>, st)
    ELSE IF IsSome(st.deposits[id]) /\ IsSome(st.config.deposit_info)
         THEN Result("Ok",
                     ReturnDepositMessages(st, Get(st.config.deposit_info),
                                           Get(st.deposits[id]).proposer, new_status),
                     st)
         ELSE Result("Ok", <<>>, st)

\* Mutant: the sender is not checked.
completed_hook_from_anyone(st, sender, id, new_status) ==
    IF ~IsCompleted(new_status) THEN Result("NotCompleted", <<>>, st)
    ELSE IF IsSome(st.deposits[id]) /\ IsSome(Get(st.deposits[id]).deposit_info)
         THEN Result("Ok",
                     ReturnDepositMessages(st, Get(Get(st.deposits[id]).deposit_info),
                                           Get(st.deposits[id]).proposer, new_status),
                     st)
         ELSE Result("Ok", <<>>, st)

execute_proposal_completed_hook(st, sender, id, new_status) ==
    IF sender # st.proposal_module THEN Result("NotModule", <<>>, st)
    ELSE IF ~IsCompleted(new_status) THEN Result("NotCompleted", <<>>, st)
    ELSE IF IsSome(st.deposits[id])
         THEN LET rec == Get(st.deposits[id])
                  messages ==
                      IF IsSome(rec.deposit_info)
                      THEN ReturnDepositMessages(st, Get(rec.deposit_info),
                                                 rec.proposer, new_status)
                      ELSE <<>>
              IN  Result("Ok", messages, st)
         ELSE Result("Ok", <<>>, st)

\* ------------------------------------------------- execute_update_config
\* Mutant: a message without deposit_info keeps the stored one, as it keeps
\* the policy.
update_config_keeping_deposit(st, sender, deposit_info, submission_policy) ==
    IF sender # st.dao THEN Result("NotDao", <<>>, st)
    ELSE IF IsSome(deposit_info) /\ into_checked(Get(deposit_info)) # "Ok"
    THEN Result(into_checked(Get(deposit_info)), <<>>, st)
    ELSE IF IsSome(submission_policy) /\ validate(Get(submission_policy)) # "Ok"
    THEN Result(validate(Get(submission_policy)), <<>>, st)
    ELSE LET new_submission_policy ==
                 IF IsSome(submission_policy)
                 THEN Get(submission_policy)
                 ELSE st.config.submission_policy
         IN  Result("Ok", <<>>,
                    [st EXCEPT !.config =
                        [deposit_info |-> IF IsSome(deposit_info) THEN deposit_info
                                          ELSE st.config.deposit_info,
                         submission_policy |-> new_submission_policy]])

execute_update_config(st, sender, deposit_info, submission_policy) ==
    IF sender # st.dao THEN Result("NotDao", <<>>, st)
    ELSE IF IsSome(deposit_info) /\ into_checked(Get(deposit_info)) # "Ok"
    THEN Result(into_checked(Get(deposit_info)), <<>>, st)
    ELSE IF IsSome(submission_policy) /\ validate(Get(submission_policy)) # "Ok"
    THEN Result(validate(Get(submission_policy)), <<>>, st)
    ELSE LET new_submission_policy ==
                 IF IsSome(submission_policy)
                 THEN Get(submission_policy)
                 ELSE st.config.submission_policy
         IN  Result("Ok", <<>>,
                    [st EXCEPT !.config =
                        [deposit_info |-> deposit_info,
                         submission_policy |-> new_submission_policy]])

\* ------------------------------------- execute_update_submission_policy
\* Mutant: under Anyone the fields of Specific are passed over in silence.
UpdatedIgnoringOtherVariant(policy, denylist_add, denylist_remove, set_dao_members, allowlist_add, allowlist_remove) ==
    IF policy.kind = "Anyone"
    THEN LET d == add_and_remove_addresses(policy.denylist, denylist_add,
                                           denylist_remove)
         IN  [err |-> d.err, policy |-> Anyone(d.list)]
    ELSE LET dao_members == IF IsSome(set_dao_members)
                            THEN Get(set_dao_members)
                            ELSE policy.dao_members
             a == add_and_remove_addresses(policy.allowlist, allowlist_add,
                                           allowlist_remove)
             d == add_and_remove_addresses(policy.denylist, denylist_add,
                                           denylist_remove)
         IN  [err |-> IF a.err # "Ok" THEN a.err ELSE d.err,
              policy |-> Specific(dao_members, a.list, d.list)]

UpdatedSubmissionPolicy(policy, denylist_add, denylist_remove, set_dao_members, allowlist_add, allowlist_remove) ==
    IF policy.kind = "Anyone"
    THEN IF IsSome(set_dao_members) \/ IsSome(allowlist_add) \/ IsSome(allowlist_remove)
         THEN [err |-> "AnyoneInvalidUpdateFields", policy |-> policy]
         ELSE LET d == add_and_remove_addresses(policy.denylist, denylist_add,
                                                denylist_remove)
              IN  [err |-> d.err, policy |-> Anyone(d.list)]
    ELSE LET dao_members == IF IsSome(set_dao_members)
                            THEN Get(set_dao_members)
                            ELSE policy.dao_members
             a == add_and_remove_addresses(policy.allowlist, allowlist_add,
                                           allowlist_remove)
             d == add_and_remove_addresses(policy.denylist, denylist_add,
                                           denylist_remove)
         IN  [err |-> IF a.err # "Ok" THEN a.err ELSE d.err,
              policy |-> Specific(dao_members, a.list, d.list)]

execute_update_submission_policy(st, sender, denylist_add, denylist_remove, set_dao_members, allowlist_add, allowlist_remove) ==
    IF sender # st.dao THEN Result("NotDao", <<>>, st)
    ELSE LET u == UpdatedSubmissionPolicy(st.config.submission_policy, denylist_add,
                                          denylist_remove, set_dao_members,
                                          allowlist_add, allowlist_remove)
         IN  IF u.err # "Ok" THEN Result(u.err, <<>>, st)
             ELSE IF validate(u.policy) # "Ok" THEN Result(validate(u.policy), <<>>, st)
             ELSE Result("Ok", <<>>, [st EXCEPT !.config.submission_policy = u.policy])

\* ------------------------------------------------------ execute_withdraw
\* (Mutant: anyone may trigger the withdrawal to the DAO.)
withdraw_from_anyone(st, sender, denom, bal) ==
    LET d == IF IsSome(denom) THEN denom
             ELSE IF IsSome(st.config.deposit_info)
                  THEN Some(Get(st.config.deposit_info).denom)
                  ELSE None
    IN  IF ~IsSome(d) THEN Result("NoWithdrawalDenom", <<>>, st)
        ELSE IF bal[Get(d)] = 0 THEN Result("NothingToWithdraw", <<>>, st)
        ELSE Result("Ok", <<TransferMsg(Get(d), st.dao, bal[Get(d)])>>, st)

\* Mutant: the configured denomination is preferred to the one asked for.
withdraw_configured_denom_first(st, sender, denom, bal) ==
    IF sender # st.dao THEN Result("NotDao", <<>>, st)
    ELSE LET d == IF IsSome(st.config.deposit_info)
                  THEN Some(Get(st.config.deposit_info).denom)
                  ELSE denom
         IN  IF ~IsSome(d) THEN Result("NoWithdrawalDenom", <<>>, st)
             ELSE IF bal[Get(d)] = 0 THEN Result("NothingToWithdraw", <<>>, st)
             ELSE Result("Ok", <<TransferMsg(Get(d), st.dao, bal[Get(d)])>>, st)

\* bal: the answer of the balance query, per denomination.
execute_withdraw(st, sender, denom, bal) ==
    IF sender # st.dao THEN Result("NotDao", <<>>, st)
    ELSE LET d == IF IsSome(denom) THEN denom
                  ELSE IF IsSome(st.config.deposit_info)
                       THEN Some(Get(st.config.deposit_info).denom)
                       ELSE None
         IN  IF ~IsSome(d) THEN Result("NoWithdrawalDenom", <<>>, st)
             ELSE IF bal[Get(d)] = 0 THEN Result("NothingToWithdraw", <<>>, st)
             ELSE Result("Ok", <<TransferMsg(Get(d), st.dao, bal[Get(d)])>>, st)

\* ------------------------------------------------------------ hook admin
\* Mutant: the address is appended without asking the hook set.
add_hook_unchecked(st, sender, address) ==
    IF sender # st.dao THEN Result("NotDao", <<>>, st)
    ELSE Result("Ok", <<>>, [st EXCEPT !.hooks = Append(@, address)])

execute_add_proposal_submitted_hook(st, sender, address) ==
    IF sender # st.dao THEN Result("NotDao", <<>>, st)
    ELSE LET h == add_hook(st.hooks, address)
         IN  IF h.err # "Ok" THEN Result(h.err, <<>>, st)
             ELSE Result("Ok", <<>>, [st EXCEPT !.hooks = h.hooks])

execute_remove_proposal_submitted_hook(st, sender, address) ==
    IF sender # st.dao THEN Result("NotDao", <<>>, st)
    ELSE LET h == remove_hook(st.hooks, address)
         IN  IF h.err # "Ok" THEN Result(h.err, <<>>, st)
             ELSE Result("Ok", <<>>, [st EXCEPT !.hooks = h.hooks])

\* ExecuteMsg::Extension
execute_extension(st, sender) == Result("Ok", <<>>, st)

\* ------------------------------------------------- query: CanPropose
\* "true" / "false", or "error" when the query itself fails.
\* Mutant: every error of the check is answered false.
query_false_on_any_error(st, address, vp) ==
    IF check_can_submit(st.config, address, vp) = "Ok" THEN "true" ELSE "false"

\* Mutant: an error other than Unauthorized is answered true.
query_true_on_other_error(st, address, vp) ==
    IF check_can_submit(st.config, address, vp) = "Unauthorized" THEN "false" ELSE "true"

query_can_propose(st, address, vp) ==
    LET r == check_can_submit(st.config, address, vp)
    IN  IF r = "Ok" THEN "true"
        ELSE IF r = "Unauthorized" THEN "false"
        ELSE "error"

\* ------------------------------------------------------------ instantiate
\* Mutant: the address the module reports is kept as the proposal module.
instantiate_dao_as_module(sender, deposit_info, submission_policy, dao_answer) ==
    Result("Ok", <<>>,
           [config |-> [deposit_info |-> deposit_info,
                        submission_policy |-> submission_policy],
            deposits |-> [id \in ProposalIds |-> None],
            hooks |-> <<>>,
            dao |-> dao_answer,
            proposal_module |-> dao_answer,
            contract_version |-> CONTRACT_VERSION])

\* dao_answer: what the instantiating proposal module answers to Dao {}.
instantiate(sender, deposit_info, submission_policy, dao_answer) ==
    LET st == [config |-> [deposit_info |-> deposit_info,
                           submission_policy |-> submission_policy],
               deposits |-> [id \in ProposalIds |-> None],
               hooks |-> <<>>,
               dao |-> dao_answer,
               proposal_module |-> sender,
               contract_version |-> CONTRACT_VERSION]
    IN  IF IsSome(deposit_info) /\ into_checked(Get(deposit_info)) # "Ok"
        THEN Result(into_checked(Get(deposit_info)), <<>>, st)
        ELSE IF validate(submission_policy) # "Ok"
        THEN Result(validate(submission_policy), <<>>, st)
        ELSE Result("Ok", <<>>, st)

\* ---------------------------------------------------------------- migrate
\* The state a release from 2.4.1 up to, not including, 2.5.0 wrote: the
\* config under the key "config" in its legacy shape.
NativeV241(d) == [kind |-> "native_v241", id |-> d]
Cw20V241(a) == [kind |-> "cw20_v241", id |-> a]

CheckedDepositInfoV241(d, n, r) == [denom |-> d, amount |-> n, refund_policy |-> r]

ConfigV241(deposit_info, open_proposal_submission) ==
    [deposit_info |-> deposit_info, open_proposal_submission |-> open_proposal_submission]

\* Which of the two shapes the stored config has; loading it as the other
\* shape fails.
IsLegacy(cfg) == "open_proposal_submission" \in DOMAIN cfg

\* semver: precedence of versions; a pre-release precedes its release.
VersionLess(v, w) ==
    \/ v.major < w.major
    \/ v.major = w.major /\ v.minor < w.minor
    \/ v.major = w.major /\ v.minor = w.minor /\ v.patch < w.patch
    \/ v.major = w.major /\ v.minor = w.minor /\ v.patch = w.patch /\ v.pre /\ ~w.pre

\* Mutant: the upper end of the range is taken in.
requirement_up_to_v250(sem_version) ==
    /\ ~VersionLess(sem_version, Version(2, 4, 1, FALSE))
    /\ ~VersionLess(Version(2, 5, 0, FALSE), sem_version)
    /\ ~sem_version.pre

\* VersionReq ">=2.4.1, <2.5.0" matches: both comparators hold, and a
\* pre-release matches no comparator that names no pre-release.
requirement_matches(sem_version) ==
    /\ ~VersionLess(sem_version, Version(2, 4, 1, FALSE))
    /\ VersionLess(sem_version, Version(2, 5, 0, FALSE))
    /\ ~sem_version.pre

FromCheckedDenomV241(denom) ==
    IF denom.kind = "cw20_v241" THEN Cw20(denom.id) ELSE Native(denom.id)

FromDepositRefundPolicyV241(refund_policy) ==
    CASE refund_policy = "AlwaysV241" -> "Always"
      [] refund_policy = "NeverV241" -> "Never"
      [] refund_policy = "OnlyPassedV241" -> "OnlyPassed"

MigratedDepositInfo(old) ==
    IF IsSome(old)
    THEN Some(DepositInfo(FromCheckedDenomV241(Get(old).denom), Get(old).amount,
                          FromDepositRefundPolicyV241(Get(old).refund_policy)))
    ELSE None

\* Mutant: the legacy flag is read the other way round.
migrated_policy_flag_inverted(policy, open_proposal_submission) ==
    IF IsSome(policy) THEN Get(policy)
    ELSE IF open_proposal_submission THEN Specific(TRUE, {}, {})
    ELSE Anyone({})

MigratedSubmissionPolicy(policy, open_proposal_submission) ==
    IF IsSome(policy) THEN Get(policy)
    ELSE IF open_proposal_submission THEN Anyone({})
    ELSE Specific(TRUE, {}, {})

\* Mutant: the supplied policy is stored unvalidated.
migrate_unvalidated(st, policy) ==
    IF ~requirement_matches(st.contract_version)
    THEN Result("CannotMigrateVersion", <<>>, st)
    ELSE IF ~IsLegacy(st.config) THEN Result("Std", <<>>, st)
    ELSE Result("Ok", <<>>,
                [st EXCEPT !.config =
                               [deposit_info |-> MigratedDepositInfo(st.config.deposit_info),
                                submission_policy |->
                                    MigratedSubmissionPolicy(
                                        policy, st.config.open_proposal_submission)],
                           !.contract_version = CONTRACT_VERSION])

\* Mutant: the stored contract version is left as it was.
migrate_keeping_version(st, policy) ==
    IF ~requirement_matches(st.contract_version)
    THEN Result("CannotMigrateVersion", <<>>, st)
    ELSE IF ~IsLegacy(st.config) THEN Result("Std", <<>>, st)
    ELSE LET old_config == st.config
             submission_policy ==
                 MigratedSubmissionPolicy(policy, old_config.open_proposal_submission)
             deposit_info == MigratedDepositInfo(old_config.deposit_info)
         IN  IF validate(submission_policy) # "Ok"
             THEN Result(validate(submission_policy), <<>>, st)
             ELSE Result("Ok", <<>>,
                         [st EXCEPT !.config = [deposit_info |-> deposit_info,
                                                submission_policy |-> submission_policy]])

\* MigrateMsg::FromUnderV250 { policy }
migrate(st, policy) ==
    IF ~requirement_matches(st.contract_version)
    THEN Result("CannotMigrateVersion", <<>>, st)
    ELSE IF ~IsLegacy(st.config) THEN Result("Std", <<>>, st)
    ELSE LET old_config == st.config
             submission_policy ==
                 MigratedSubmissionPolicy(policy, old_config.open_proposal_submission)
             deposit_info == MigratedDepositInfo(old_config.deposit_info)
         IN  IF validate(submission_policy) # "Ok"
             THEN Result(validate(submission_policy), <<>>, st)
             ELSE Result("Ok", <<>>,
                         [st EXCEPT !.config = [deposit_info |-> deposit_info,
                                                submission_policy |-> submission_policy],
                                    !.contract_version = CONTRACT_VERSION])

\* MigrateMsg::Extension
migrate_extension(st) == Result("Std", <<>>, st)

\* ----------------------------------------------------------------- inputs
\* The oracle's answer about who; the query fails when the oracle is not up.
Oracle(who, up) ==
    IF up THEN OracleAnswer(TRUE, voting_power[who]) ELSE OracleAnswer(FALSE, 0)

Opt(S) == {None} \cup {Some(x) : x \in S}

NativeDeposits == {DepositInfo(Native("x"), 1, r) : r \in RefundPolicies}
Cw20Deposit == DepositInfo(Cw20("tok"), 1, "OnlyPassed")
ZeroDeposit == DepositInfo(Native("x"), 0, "Always")
Paid == Some([denom |-> "x", amount |-> 1])
Funds == {None, Paid}
Payloads == {"m1"}

PoliciesOver(L) ==
    {Anyone(d) : d \in SUBSET L}
    \cup {Specific(m, a, d) : m \in BOOLEAN, a \in SUBSET L, d \in SUBSET L}

\* ------------------------------------------------------------ transaction
NoCall == [op |-> "none"]
NoSnapshot == [op |-> "none"]
NoResponse == [op |-> "none"]
Idle == call.op = "none"

Snapshot == [storage |-> Storage, released |-> released, balance |-> balance]

\* A handler returned r for call c; rest is what the transaction still has
\* to dispatch.  An error persists nothing.
Apply(c, r, rest) ==
    /\ call' = c
    /\ before' = Snapshot
    /\ response' = [err |-> r.err, msgs |-> r.msgs]
    /\ IF r.err = "Ok"
       THEN /\ config' = r.st.config
            /\ deposits' = r.st.deposits
            /\ proposal_submitted_hooks' = r.st.hooks
            /\ dao' = r.st.dao
            /\ proposal_module' = r.st.proposal_module
            /\ contract_version' = r.st.contract_version
            /\ queue' = r.msgs \o rest
       ELSE /\ UNCHANGED storage_vars
            /\ queue' = rest

\* The state after the proposal module instantiated a release of version v,
\* with the config in today's shape, with one of the given messages.
InitAt(Vs, DIs, SPs) ==
    /\ \E v \in Vs, di \in DIs, sp \in SPs :
          LET r == instantiate(ModuleAddr, di, sp, DaoAddr)
          IN  /\ r.err = "Ok"
              /\ config = r.st.config
              /\ deposits = r.st.deposits
              /\ proposal_submitted_hooks = r.st.hooks
              /\ dao = r.st.dao
              /\ proposal_module = r.st.proposal_module
              /\ contract_version = IF v = CONTRACT_VERSION THEN r.st.contract_version ELSE v
    /\ next_proposal_id = 1
    /\ created = {}
    /\ voting_power = [a \in Addrs |-> 0]
    /\ balance = [d \in Denoms |-> 0]
    /\ released = {}
    /\ call = NoCall
    /\ before = NoSnapshot
    /\ response = NoResponse
    /\ queue = <<>>

\* The state of a contract that an earlier release instantiated and ran:
\* its version, its config in the legacy shape and, when rec, the deposit
\* record of one proposal that user a submitted.
InitLegacy(Vs, DIs, Recs) ==
    /\ \E v \in Vs, di \in DIs, open \in BOOLEAN, rec \in Recs :
          /\ contract_version = v
          /\ config = ConfigV241(di, open)
          /\ deposits = [id \in ProposalIds |->
                           IF rec /\ id = 1
                           THEN Some([deposit_info |-> MigratedDepositInfo(di),
                                      proposer |-> "a"])
                           ELSE None]
          /\ next_proposal_id = IF rec THEN 2 ELSE 1
          /\ created = IF rec THEN {[id |-> 1, next_id |-> 1, sender |-> "a"]} ELSE {}
          /\ balance = [d \in Denoms |->
                          IF rec /\ IsSome(di) /\ FromCheckedDenomV241(Get(di).denom) = d
                          THEN Get(di).amount ELSE 0]
    /\ proposal_submitted_hooks = <<>>
    /\ dao = DaoAddr
    /\ proposal_module = ModuleAddr
    /\ voting_power = [a \in Addrs |-> 0]
    /\ released = {}
    /\ call = NoCall
    /\ before = NoSnapshot
    /\ response = NoResponse
    /\ queue = <<>>

\* The state after the proposal module instantiated the contract with one of
\* the given messages.
InitWith(DIs, SPs) == InitAt({CONTRACT_VERSION}, DIs, SPs)

\* Proposal-creation messages not yet dispatched.
Pending(q) == Cardinality({i \in 1..Len(q) : q[i].type = "propose"})

WithFunds(bal, funds) ==
    \* coins of a denomination no deposit uses are not tracked
    IF IsSome(funds) /\ Native(Get(funds).denom) \in DOMAIN bal
    THEN [bal EXCEPT ![Native(Get(funds).denom)] = @ + Get(funds).amount]
    ELSE bal

\* execute_propose called by sender, at top level or from a hook subscriber.
ProposeCall(sender, funds, payload, vp, rest) ==
    /\ next_proposal_id + Pending(rest) <= MaxProposals
    /\ LET r == execute_propose(Storage, sender, funds, payload, vp, next_proposal_id)
       IN  /\ Apply([op |-> "propose", sender |-> sender, funds |-> funds,
                     payload |-> payload, vp |-> vp, next_id |-> next_proposal_id],
                    r, rest)
           /\ balance' = IF r.err = "Ok" THEN WithFunds(balance, funds) ELSE balance
    /\ UNCHANGED <<next_proposal_id, created, voting_power, released>>

Propose(Senders, Fs, Ups) ==
    /\ Idle
    /\ \E s \in Senders, f \in Fs, m \in Payloads, up \in Ups :
          ProposeCall(s, f, m, Oracle(s, up), <<>>)

UpdateConfig(Senders, DIs, SPs) ==
    /\ Idle
    /\ \E s \in Senders, di \in DIs, sp \in SPs :
          Apply([op |-> "update_config", sender |-> s,
                 deposit_info |-> di, submission_policy |-> sp],
                execute_update_config(Storage, s, di, sp), <<>>)
    /\ UNCHANGED env_vars

UpdateSubmissionPolicy(Senders, Lists) ==
    /\ Idle
    /\ \E s \in Senders, da \in Lists, dr \in Lists, dm \in Opt(BOOLEAN),
          aa \in Lists, ar \in Lists :
          Apply([op |-> "update_submission_policy", sender |-> s,
                 denylist_add |-> da, denylist_remove |-> dr, set_dao_members |-> dm,
                 allowlist_add |-> aa, allowlist_remove |-> ar],
                execute_update_submission_policy(Storage, s, da, dr, dm, aa, ar), <<>>)
    /\ UNCHANGED env_vars

Withdraw(Senders, Ds) ==
    /\ Idle
    /\ \E s \in Senders, d \in Ds :
          Apply([op |-> "withdraw", sender |-> s, denom |-> d],
                execute_withdraw(Storage, s, d, balance), <<>>)
    /\ UNCHANGED env_vars

AddProposalSubmittedHook(Senders, Hs) ==
    /\ Idle
    /\ \E s \in Senders, a \in Hs :
          Apply([op |-> "add_hook", sender |-> s, address |-> a],
                execute_add_proposal_submitted_hook(Storage, s, a), <<>>)
    /\ UNCHANGED env_vars

RemoveProposalSubmittedHook(Senders, Hs) ==
    /\ Idle
    /\ \E s \in Senders, a \in Hs :
          Apply([op |-> "remove_hook", sender |-> s, address |-> a],
                execute_remove_proposal_submitted_hook(Storage, s, a), <<>>)
    /\ UNCHANGED env_vars

ProposalCompletedHook(Senders, Sts) ==
    /\ Idle
    /\ \E s \in Senders, id \in ProposalIds, st \in Sts :
          Apply([op |-> "completed", sender |-> s, id |-> id, new_status |-> st],
                execute_proposal_completed_hook(Storage, s, id, st), <<>>)
    /\ UNCHANGED env_vars

Extension(Senders) ==
    /\ Idle
    /\ \E s \in Senders :
          Apply([op |-> "extension", sender |-> s], execute_extension(Storage, s), <<>>)
    /\ UNCHANGED env_vars

CanPropose(As, Ups) ==
    /\ Idle
    /\ \E a \in As, up \in Ups :
          /\ call' = [op |-> "can_propose", address |-> a, vp |-> Oracle(a, up)]
          /\ response' = [err |-> "Ok", msgs |-> <<>>,
                          value |-> query_can_propose(Storage, a, Oracle(a, up))]
    /\ before' = Snapshot
    /\ UNCHANGED <<storage_vars, env_vars, queue>>

\* The migration entry point is called with the new code in place.
Migrate(Ps) ==
    /\ Idle
    /\ \E p \in Ps :
          Apply([op |-> "migrate", policy |-> p], migrate(Storage, p), <<>>)
    /\ UNCHANGED env_vars

MigrateExtension ==
    /\ Idle
    /\ Apply([op |-> "migrate_extension"], migrate_extension(Storage), <<>>)
    /\ UNCHANGED env_vars

\* submit, update_config, update_submission_policy and the CanPropose query
\* load the config first: on a state that has not been migrated the load
\* fails and nothing is stored.
ConfigLoadFails(Ops) ==
    /\ Idle
    /\ IsLegacy(config)
    /\ \E op \in Ops :
          Apply([op |-> "config_load_failed", of |-> op], Result("Std", <<>>, Storage), <<>>)
    /\ UNCHANGED env_vars

\* --------------------------------------------- dispatch of the messages
\* The proposal module creates the proposal under its next id.
DeliverPropose ==
    /\ queue # <<>>
    /\ Head(queue).type = "propose"
    /\ created' = created \cup {[id |-> next_proposal_id,
                                  next_id |-> Head(queue).next_id,
                                  sender |-> Head(queue).sender]}
    /\ next_proposal_id' = next_proposal_id + 1
    /\ queue' = Tail(queue)
    /\ UNCHANGED <<storage_vars, voting_power, balance, released,
                   call, before, response>>

\* The subscriber takes the notification and sends nothing back.
DeliverHook ==
    /\ queue # <<>>
    /\ Head(queue).type = "hook"
    /\ queue' = Tail(queue)
    /\ UNCHANGED <<storage_vars, env_vars, call, before, response>>

\* The subscriber reacts to the notification by submitting a proposal of its
\* own, which is handled before the rest of the queue.
DeliverHookPropose(Fs, Ups) ==
    /\ queue # <<>>
    /\ Head(queue).type = "hook"
    /\ \E f \in Fs, m \in Payloads, up \in Ups :
          LET who == Head(queue).to
          IN  /\ execute_propose(Storage, who, f, m, Oracle(who, up),
                                 next_proposal_id).err = "Ok"
              /\ ProposeCall(who, f, m, Oracle(who, up), Tail(queue))

\* The cw20 deposit is pulled from the proposer into the contract.
DeliverTransferFrom ==
    /\ queue # <<>>
    /\ Head(queue).type = "transfer_from"
    /\ balance' = [balance EXCEPT ![Head(queue).denom] = @ + Head(queue).amount]
    /\ queue' = Tail(queue)
    /\ UNCHANGED <<storage_vars, next_proposal_id, created, voting_power, released,
                   call, before, response>>

\* The contract pays out; a release of a deposit is remembered by its id.
DeliverTransfer ==
    /\ queue # <<>>
    /\ Head(queue).type = "transfer"
    /\ balance[Head(queue).denom] >= Head(queue).amount
    /\ balance' = [balance EXCEPT ![Head(queue).denom] = @ - Head(queue).amount]
    /\ released' = IF call.op = "completed" THEN released \cup {call.id} ELSE released
    /\ queue' = Tail(queue)
    /\ UNCHANGED <<storage_vars, next_proposal_id, created, voting_power,
                   call, before, response>>

\* The contract cannot pay: the transaction fails as a whole.
FailTransfer ==
    /\ queue # <<>>
    /\ Head(queue).type = "transfer"
    /\ balance[Head(queue).denom] < Head(queue).amount
    /\ config' = before.storage.config
    /\ deposits' = before.storage.deposits
    /\ proposal_submitted_hooks' = before.storage.hooks
    /\ dao' = before.storage.dao
    /\ proposal_module' = before.storage.proposal_module
    /\ contract_version' = before.storage.contract_version
    /\ response' = [response EXCEPT !.err = "Reverted"]
    /\ queue' = <<>>
    /\ UNCHANGED <<env_vars, call, before>>

EndTx ==
    /\ ~Idle
    /\ queue = <<>>
    /\ call' = NoCall
    /\ before' = NoSnapshot
    /\ response' = NoResponse
    /\ UNCHANGED <<storage_vars, env_vars, queue>>

\* ------------------------------------------------------------ environment
SetVotingPower(As) ==
    /\ Idle
    /\ \E a \in As, n \in 0..1 :
          /\ voting_power[a] # n
          /\ voting_power' = [voting_power EXCEPT ![a] = n]
    /\ UNCHANGED <<storage_vars, next_proposal_id, created, balance, released, tx_vars>>

\* The proposal module hands out an id a second time: its NextProposalId
\* answers an id it has already given to a proposal.
ReuseProposalId ==
    /\ Idle
    /\ next_proposal_id > 1
    /\ balance[Native("x")] <= MaxProposals
    /\ next_proposal_id' = next_proposal_id - 1
    /\ UNCHANGED <<storage_vars, created, voting_power, balance, released, tx_vars>>

\* --------------------------------------------------------- specifications
\* Deposits: escrow at submit, release at completion.
DepositChoices == Opt(NativeDeposits \cup {Cw20Deposit})
CompletionSenders == {ModuleAddr, DaoAddr, "a"}
CompletionStatuses == Statuses
OracleUp == {TRUE}

Init == InitWith({None, Some(DepositInfo(Native("x"), 1, "Always"))}, {Anyone({})})

Next ==
    \/ Propose({"a"}, Funds, OracleUp)
    \/ UpdateConfig({DaoAddr}, DepositChoices, {None})
    \/ ProposalCompletedHook(CompletionSenders, CompletionStatuses)
    \/ DeliverPropose
    \/ DeliverTransferFrom
    \/ DeliverTransfer
    \/ FailTransfer
    \/ EndTx

Spec == Init /\ [][Next]_vars

\* Submission: the messages of a submit and their dispatch, with hook
\* subscribers that may submit in turn.
SubmitDeposits == {None, Some(Cw20Deposit)}
Subscribers == {"a", "b"}

InitSubmit == InitWith(SubmitDeposits, {Anyone({})})

NextSubmit ==
    \/ Propose(Users, Funds, OracleUp)
    \/ UpdateConfig({DaoAddr}, SubmitDeposits, {None})
    \/ AddProposalSubmittedHook({DaoAddr}, Subscribers)
    \/ RemoveProposalSubmittedHook({DaoAddr}, Subscribers)
    \/ DeliverPropose
    \/ DeliverHook
    \/ DeliverHookPropose(Funds, OracleUp)
    \/ DeliverTransferFrom
    \/ EndTx

SpecSubmit == InitSubmit /\ [][NextSubmit]_vars

\* ------------------------------------------------ order of queries and writes
\* What a handler does to the world outside its own memory, in the order of
\* its statements: a query to a collaborator or a write to the storage.
QueryEffect(what) == [kind |-> "query", what |-> what]
WriteEffect(what) == [kind |-> "write", what |-> what]

instantiate_effects(sender, deposit_info, submission_policy, dao_answer) ==
    <<WriteEffect("contract_version"),          \* set_contract_version
      WriteEffect("proposal_module"),           \* proposal_module.save
      QueryEffect("Dao"),                       \* query_wasm_smart(sender, Dao {})
      WriteEffect("dao")>>                      \* dao.save
    \o (IF instantiate(sender, deposit_info, submission_policy, dao_answer).err = "Ok"
        THEN <<WriteEffect("config")>>          \* config.save
        ELSE <<>>)

\* check_can_submit asks the DAO for the voting power only of a sender that
\* a Specific policy with dao_members neither denies nor allows by name.
check_can_submit_effects(cfg, who) ==
    LET p == cfg.submission_policy
    IN  IF /\ p.kind = "Specific"
           /\ who \notin p.denylist
           /\ who \notin p.allowlist
           /\ p.dao_members
        THEN <<QueryEffect("VotingPowerAtHeight")>>
        ELSE <<>>

execute_propose_effects(st, sender, funds, payload, vp, next_id) ==
    check_can_submit_effects(st.config, sender)
    \o (IF execute_propose(st, sender, funds, payload, vp, next_id).err = "Ok"
        THEN <<QueryEffect("NextProposalId"), WriteEffect("deposits")>>
        ELSE <<>>)

execute_update_config_effects(st, sender, deposit_info, submission_policy) ==
    IF execute_update_config(st, sender, deposit_info, submission_policy).err = "Ok"
    THEN <<WriteEffect("config")>>
    ELSE <<>>

execute_withdraw_effects(st, sender, denom, bal) ==
    IF execute_withdraw(st, sender, denom, bal).err \in {"NotDao", "NoWithdrawalDenom"}
    THEN <<>>
    ELSE <<QueryEffect("Balance")>>

\* The completion hook and Extension hold the storage read-only and ask
\* nobody.
execute_proposal_completed_hook_effects == <<>>
execute_extension_effects == <<>>

\* The effects of the invocation that call describes.
Effects ==
    CASE call.op = "instantiate" ->
            instantiate_effects(call.sender, call.deposit_info,
                                call.submission_policy, call.dao_answer)
      [] call.op = "propose" ->
            execute_propose_effects(before.storage, call.sender, call.funds,
                                    call.payload, call.vp, call.next_id)
      [] call.op = "update_config" ->
            execute_update_config_effects(before.storage, call.sender,
                                          call.deposit_info, call.submission_policy)
      [] call.op = "withdraw" ->
            execute_withdraw_effects(before.storage, call.sender, call.denom,
                                     before.balance)
      [] call.op = "completed" -> execute_proposal_completed_hook_effects
      [] call.op = "extension" -> execute_extension_effects

\* Every invocation from instantiate on: the first state is the one in which
\* instantiate has just returned.
OrderDeposits == {None, Some(DepositInfo(Native("x"), 1, "Always"))}
OrderPolicies == {Anyone({}), Specific(TRUE, {}, {})}

InitOrder ==
    /\ \E di \in OrderDeposits, sp \in OrderPolicies :
          LET r == instantiate(ModuleAddr, di, sp, DaoAddr)
          IN  /\ r.err = "Ok"
              /\ config = r.st.config
              /\ deposits = r.st.deposits
              /\ proposal_submitted_hooks = r.st.hooks
              /\ dao = r.st.dao
              /\ proposal_module = r.st.proposal_module
              /\ contract_version = r.st.contract_version
              /\ call = [op |-> "instantiate", sender |-> ModuleAddr,
                         deposit_info |-> di, submission_policy |-> sp,
                         dao_answer |-> DaoAddr]
              /\ response = [err |-> r.err, msgs |-> r.msgs]
    /\ before = NoSnapshot
    /\ next_proposal_id = 1
    /\ created = {}
    /\ voting_power = [a \in Addrs |-> 0]
    /\ balance = [d \in Denoms |-> 0]
    /\ released = {}
    /\ queue = <<>>

NextOrder ==
    \/ Propose({"a"}, Funds, OracleUp)
    \/ UpdateConfig({DaoAddr, "a"}, OrderDeposits, {None})
    \/ Withdraw({DaoAddr, "a"}, Opt(Denoms))
    \/ ProposalCompletedHook({ModuleAddr, "a"}, {"Open", "Closed"})
    \/ Extension({DaoAddr, "a"})
    \/ SetVotingPower({"a"})
    \/ DeliverPropose
    \/ DeliverTransfer
    \/ FailTransfer
    \/ EndTx

SpecOrder == InitOrder /\ [][NextOrder]_vars

\* The gate of a submit: senders the policy turns away and funds that do
\* not match the deposit, with a subscriber waiting for notifications.
WrongDenomFunds == Some([denom |-> "y", amount |-> 1])
GateFunds == {None, Paid, WrongDenomFunds}
GateDeposits == {None, Some(DepositInfo(Native("x"), 1, "Always")), Some(Cw20Deposit)}
GatePolicies == {Anyone({}), Anyone({"a"}), Specific(FALSE, {"b"}, {})}

InitGate == InitWith(GateDeposits, GatePolicies)

NextGate ==
    \/ Propose(Users, GateFunds, OracleUp)
    \/ AddProposalSubmittedHook({DaoAddr}, {"b"})
    \/ DeliverPropose
    \/ DeliverHook
    \/ DeliverTransferFrom
    \/ EndTx

SpecGate == InitGate /\ [][NextGate]_vars

\* Authorization: who may submit under the policies the DAO can store.
ListAddrs == {"a", "b"}
Policies == PoliciesOver(ListAddrs)
ListChoices == Opt({{a} : a \in ListAddrs})
OracleUpOrDown == BOOLEAN

InitPolicy == InitWith({None}, {Anyone({}), Specific(TRUE, {}, {})})

NextPolicy ==
    \/ Propose(Users, {None}, OracleUpOrDown)
    \/ CanPropose(Users, OracleUpOrDown)
    \/ UpdateConfig({DaoAddr}, {None}, Opt(Policies))
    \/ UpdateSubmissionPolicy({DaoAddr}, ListChoices)
    \/ SetVotingPower(Users)
    \/ DeliverPropose
    \/ EndTx

SpecPolicy == InitPolicy /\ [][NextPolicy]_vars

\* Administration: the DAO-only operations, called by the DAO and by others.
AdminSenders == {DaoAddr, ModuleAddr, "a"}
AdminDeposits == {None, Some(DepositInfo(Native("x"), 1, "Never")), Some(ZeroDeposit)}
AdminPolicies == {None, Some(Specific(TRUE, {}, {"a"})), Some(Specific(FALSE, {}, {}))}
AdminLists == Opt({{"a"}})
AdminHooks == {"b"}

InitAdmin == InitWith({Some(DepositInfo(Native("x"), 1, "Always"))}, {Anyone({})})

NextAdmin ==
    \/ Propose({"a"}, {Paid}, OracleUp)
    \/ UpdateConfig(AdminSenders, AdminDeposits, AdminPolicies)
    \/ UpdateSubmissionPolicy(AdminSenders, AdminLists)
    \/ AddProposalSubmittedHook(AdminSenders, AdminHooks)
    \/ RemoveProposalSubmittedHook(AdminSenders, AdminHooks)
    \/ Withdraw(AdminSenders, Opt(Denoms))
    \/ Extension(AdminSenders)
    \/ DeliverPropose
    \/ DeliverHook
    \/ DeliverTransfer
    \/ EndTx

SpecAdmin == InitAdmin /\ [][NextAdmin]_vars

\* Migration: contracts of earlier releases and freshly instantiated ones,
\* migrated and then used.
LegacyVersions ==
    {Version(1, 9, 9, FALSE), Version(2, 4, 0, FALSE), Version(2, 4, 1, FALSE),
     Version(2, 4, 5, FALSE), Version(2, 4, 5, TRUE)}
LaterVersions == {Version(2, 5, 1, FALSE)}
LegacyDeposits ==
    {None, Some(CheckedDepositInfoV241(NativeV241("x"), 1, "OnlyPassedV241")),
     Some(CheckedDepositInfoV241(Cw20V241("tok"), 1, "AlwaysV241")),
     Some(CheckedDepositInfoV241(NativeV241("x"), 1, "NeverV241"))}
MigratePolicies == {None, Some(Anyone({"b"})), Some(Specific(FALSE, {}, {}))}
MigrateDeposits == {None, Some(DepositInfo(Native("x"), 1, "Always"))}
MigrateUpdatePolicies == {None, Some(Specific(FALSE, {"a"}, {})), Some(Specific(FALSE, {}, {}))}
MigrateLists == Opt({{"a"}})

InitMigrate ==
    \/ InitLegacy(LegacyVersions, LegacyDeposits, BOOLEAN)
    \/ InitWith(MigrateDeposits, {Anyone({}), Specific(FALSE, {}, {}), Specific(TRUE, {}, {})})
    \/ InitAt(LaterVersions, {None}, {Anyone({})})

MigratedPropose == ~IsLegacy(config) /\ Propose({"a"}, Funds, OracleUp)
MigratedUpdateConfig ==
    ~IsLegacy(config) /\ UpdateConfig({DaoAddr}, MigrateDeposits, MigrateUpdatePolicies)
MigratedUpdateSubmissionPolicy ==
    ~IsLegacy(config) /\ UpdateSubmissionPolicy({DaoAddr}, MigrateLists)
MigratedWithdraw == ~IsLegacy(config) /\ Withdraw({DaoAddr}, {None})

NextMigrate ==
    \/ Migrate(MigratePolicies)
    \/ MigrateExtension
    \/ ConfigLoadFails({"propose", "update_config", "update_submission_policy"})
    \/ MigratedPropose
    \/ MigratedUpdateConfig
    \/ MigratedUpdateSubmissionPolicy
    \/ MigratedWithdraw
    \/ AddProposalSubmittedHook({DaoAddr}, {"b"})
    \/ RemoveProposalSubmittedHook({DaoAddr}, {"b"})
    \/ ProposalCompletedHook({ModuleAddr}, {"Closed", "Executed"})
    \/ DeliverPropose
    \/ DeliverHook
    \/ DeliverTransfer
    \/ FailTransfer
    \/ EndTx

SpecMigrate == InitMigrate /\ [][NextMigrate]_vars

\* Id reuse: a proposal module that does not keep its ids unique.
InitReuse == InitWith({Some(DepositInfo(Native("x"), 1, "Always"))}, {Anyone({})})

NextReuse ==
    \/ Propose(Users, {Paid}, OracleUp)
    \/ ProposalCompletedHook({ModuleAddr}, {"Closed"})
    \/ ReuseProposalId
    \/ DeliverPropose
    \/ DeliverTransfer
    \/ FailTransfer
    \/ EndTx

SpecReuse == InitReuse /\ [][NextReuse]_vars

\* ----------------------------------------------------------------- claims
Completed == call.op = "completed"
Submitted == call.op = "propose"

\* The record the completion hook found for its id, if any.
RecordAtCall == before.storage.deposits[call.id]
HasSnapshot == IsSome(RecordAtCall) /\ IsSome(Get(RecordAtCall).deposit_info)

\* The refund table of the deposit ledger.
RefundTarget(refund_policy, status, proposer, d) ==
    CASE refund_policy = "Always" -> proposer
      [] refund_policy = "OnlyPassed" -> IF status = "Executed" THEN proposer ELSE d
      [] refund_policy = "Never" -> d

\* C1: a completion hook from the proposal module with a terminal status, for
\* an id whose record holds a deposit snapshot, emits exactly the transfer of
\* the deposit to the recipient of the refund table: the proposer for Always,
\* the proposer on Executed and the DAO otherwise for OnlyPassed, the DAO for
\* Never; the recipient is the recorded proposer or the DAO.
C1_RefundTable ==
    (/\ Completed
     /\ call.sender = before.storage.proposal_module
     /\ call.new_status \in TerminalStatuses
     /\ HasSnapshot)
    => LET rec == Get(RecordAtCall)
           di == Get(rec.deposit_info)
           target == RefundTarget(di.refund_policy, call.new_status, rec.proposer,
                                  before.storage.dao)
       IN  /\ response.msgs = <<TransferMsg(di.denom, target, di.amount)>>
           /\ response.msgs[1].to \in {rec.proposer, before.storage.dao}

\* An OnlyPassed deposit of a closed proposal went to the DAO.
C1_Witness ==
    /\ Completed
    /\ HasSnapshot
    /\ Get(Get(RecordAtCall).deposit_info).refund_policy = "OnlyPassed"
    /\ call.new_status = "Closed"
    /\ response.err = "Ok"
    /\ queue = <<>>
    /\ response.msgs # <<>>
    /\ response.msgs[1].to = dao
    /\ Get(RecordAtCall).proposer # dao

\* C2: for each proposal id at most one completion hook ever emits a deposit
\* transfer: no completion hook emits one for an id whose deposit has already
\* been paid out.
C2_ReleasedOnce ==
    ~(/\ Completed
      /\ response.msgs # <<>>
      /\ call.id \in before.released)

OracleAnswers == {OracleAnswer(o, n) : o \in BOOLEAN, n \in 0..1}

\* C3: an address on the denylist of the stored policy is Unauthorized
\* whatever the allowlist, the dao_members flag and its voting power are, and
\* a submit by such an address stores no deposit record.
C3_DenylistWins ==
    /\ \A who \in config.submission_policy.denylist, vp \in OracleAnswers :
          check_can_submit(config, who, vp) = "Unauthorized"
    /\ (Submitted /\ call.sender \in before.storage.config.submission_policy.denylist)
       => /\ response.err = "Unauthorized"
          /\ response.msgs = <<>>
          /\ deposits = before.storage.deposits

\* A denylisted sender that is also allowlisted and holds voting power, under
\* dao_members, was turned away.
C3_Witness ==
    /\ Submitted
    /\ config.submission_policy.kind = "Specific"
    /\ config.submission_policy.dao_members
    /\ call.sender \in config.submission_policy.denylist
    /\ call.sender \in config.submission_policy.allowlist
    /\ call.vp.ok
    /\ call.vp.power > 0
    /\ response.err = "Unauthorized"

\* The decision of the policy engine for an address that is not denylisted.
Authorized(policy, who, power) ==
    \/ policy.kind = "Anyone"
    \/ /\ policy.kind = "Specific"
       /\ \/ who \in policy.allowlist
          \/ policy.dao_members /\ power > 0

\* C4: an address that is not denylisted is authorized under Anyone; under
\* Specific it is authorized when allowlisted, else exactly when dao_members
\* is set and the oracle reports a power above zero; every other case is
\* Unauthorized.  A submit follows the same decision.
C4_DecisionOrder ==
    /\ \A who \in Users \ config.submission_policy.denylist, n \in 0..1 :
          check_can_submit(config, who, OracleAnswer(TRUE, n))
              = IF Authorized(config.submission_policy, who, n)
                THEN "Ok" ELSE "Unauthorized"
    /\ (/\ Submitted
        /\ call.vp.ok
        /\ call.sender \notin before.storage.config.submission_policy.denylist)
       => response.err
              = IF Authorized(before.storage.config.submission_policy, call.sender,
                              call.vp.power)
                THEN "Ok" ELSE "Unauthorized"

\* Under Specific{dao_members: true, allowlist: [], denylist: []} a sender
\* whose power has become positive was accepted.
C4_Witness ==
    /\ Submitted
    /\ config.submission_policy = Specific(TRUE, {}, {})
    /\ call.vp = OracleAnswer(TRUE, 1)
    /\ response.err = "Ok"
    /\ IsSome(deposits[call.next_id])

\* C5: the CanPropose query answers true exactly when the authorization step
\* of a submit by that address passes, and false exactly when it fails with
\* Unauthorized.
C5_QueryAgreesWithSubmit ==
    /\ Submitted
       => LET q == query_can_propose(before.storage, call.sender, call.vp)
          IN  /\ q = "true" <=> response.err \notin {"Unauthorized", "Std"}
              /\ q = "false" <=> response.err = "Unauthorized"
    /\ call.op = "can_propose"
       => LET r == execute_propose(Storage, call.address, None, "m1", call.vp,
                                   next_proposal_id)
          IN  /\ response.value = "true" <=> r.err \notin {"Unauthorized", "Std"}
              /\ response.value = "false" <=> r.err = "Unauthorized"

\* The query answered false for an address a submit of which is turned away.
C5_Witness ==
    /\ call.op = "can_propose"
    /\ response.value = "false"
    /\ call.vp.ok
    /\ config.submission_policy.kind = "Specific"
    /\ call.address \notin config.submission_policy.denylist

\* C6: a completion hook whose sender is not the recorded proposal module
\* fails with NotModule, emits no message and changes no state, whatever the
\* id and the status.
C6_ModuleOnly ==
    (Completed /\ call.sender # before.storage.proposal_module)
    => /\ response = [err |-> "NotModule", msgs |-> <<>>]
       /\ queue = <<>>
       /\ Storage = before.storage
       /\ balance = before.balance
       /\ released = before.released

\* The DAO itself reported a terminal status for an id with a deposit snapshot.
C6_Witness ==
    /\ Completed
    /\ call.sender = dao
    /\ call.new_status \in TerminalStatuses
    /\ HasSnapshot
    /\ balance[Get(Get(RecordAtCall).deposit_info).denom] > 0

\* C7: a completion hook from the proposal module with a status other than
\* Closed, Executed or Vetoed fails with NotCompleted and emits no transfer,
\* with or without a deposit record; a transfer is emitted only for one of
\* the three terminal statuses.
C7_TerminalOnly ==
    /\ (/\ Completed
        /\ call.sender = before.storage.proposal_module
        /\ call.new_status \notin {"Closed", "Executed", "Vetoed"})
       => response = [err |-> "NotCompleted", msgs |-> <<>>]
    /\ (Completed /\ response.msgs # <<>>)
       => call.new_status \in {"Closed", "Executed", "Vetoed"}

\* The proposal module reported Passed for an id with a deposit snapshot.
C7_Witness ==
    /\ Completed
    /\ call.sender = proposal_module
    /\ call.new_status = "Passed"
    /\ HasSnapshot
    /\ response.err = "NotCompleted"

DaoOnlyOps ==
    {"update_config", "update_submission_policy", "add_hook", "remove_hook", "withdraw"}

\* C8: update_config, update_submission_policy, add_hook, remove_hook and
\* withdraw called by anyone but the recorded DAO fail with NotDao, leave the
\* config and the hook set as they were and emit no message; the handler that
\* changed the config or the hook set was one of these, sent by the DAO.
C8_DaoOnly ==
    /\ (call.op \in DaoOnlyOps /\ call.sender # before.storage.dao)
       => /\ response = [err |-> "NotDao", msgs |-> <<>>]
          /\ queue = <<>>
          /\ config = before.storage.config
          /\ proposal_submitted_hooks = before.storage.hooks
    /\ (/\ ~Idle
        /\ \/ config # before.storage.config
           \/ proposal_submitted_hooks # before.storage.hooks)
       => /\ call.op \in DaoOnlyOps
          /\ call.sender = before.storage.dao

\* Someone else than the DAO asked to withdraw a balance that is there.
C8_Witness ==
    /\ call.op = "withdraw"
    /\ call.sender # dao
    /\ call.denom = Some(Native("x"))
    /\ balance[Native("x")] > 0
    /\ response.err = "NotDao"

Rank(m) ==
    CASE m.type = "propose" -> 1
      [] m.type = "hook" -> 2
      [] OTHER -> 3

\* C9: the response of a successful submit carries the one proposal-creation
\* message to the proposal module first, then the hook notifications, then
\* the deposit-take transfers; no hook message precedes the creation message.
C9_ResponseOrder ==
    (Submitted /\ response.err = "Ok")
    => LET ms == response.msgs
       IN  /\ Len(ms) >= 1
           /\ ms[1].type = "propose"
           /\ ms[1].to = before.storage.proposal_module
           /\ Pending(ms) = 1
           /\ \A i, j \in 1..Len(ms) : i < j => Rank(ms[i]) <= Rank(ms[j])
           /\ \A i \in 1..Len(ms) :
                 ms[i].type \in {"propose", "hook", "transfer_from"}

\* A submit with two subscribers and a deposit to take.
C9_Witness ==
    /\ Submitted
    /\ response.err = "Ok"
    /\ Len(response.msgs) = 4
    /\ response.msgs[2].type = "hook"
    /\ response.msgs[4].type = "transfer_from"

\* C10: the id under which a submit stored its deposit record is the id the
\* proposal module gives to the proposal that submit's creation message
\* creates, also when a subscriber answers its notification with a submit of
\* its own; the proposer of the record is the sender of the submit.
C10_IdBinding ==
    /\ \A c \in created :
          /\ c.id = c.next_id
          /\ IsSome(deposits[c.id])
          /\ Get(deposits[c.id]).proposer = c.sender
    /\ (Submitted /\ response.err = "Ok")
       => /\ IsSome(deposits[call.next_id])
          /\ Get(deposits[call.next_id]).proposer = call.sender
          /\ Get(deposits[call.next_id]).deposit_info = before.storage.config.deposit_info

\* Within one transaction a subscriber submitted in answer to a notification
\* and both proposals have been created.
C10_Witness ==
    /\ Submitted
    /\ call.sender \in Range(proposal_submitted_hooks)
    /\ call.next_id = 2
    /\ \E c \in created : c.id = 1 /\ c.sender # call.sender
    /\ \E c \in created : c.id = 2 /\ c.sender = call.sender
    /\ \E i \in 1..Len(queue) :
          queue[i].type = "transfer_from" /\ queue[i].owner # call.sender

\* C11: the stored proposal-module address is the caller of instantiate and
\* the stored DAO address is the one that module reported; no operation
\* (submit, update_config, update_submission_policy, the hook operations,
\* withdraw, the completion hook, migrate) changes either of them.
C11_AddressesBound ==
    /\ proposal_module = ModuleAddr
    /\ dao = DaoAddr
    /\ ~Idle => /\ proposal_module = before.storage.proposal_module
                /\ dao = before.storage.dao

\* A migration went through on a contract that has a subscriber and has
\* released a deposit.
C11_Witness ==
    /\ call.op = "migrate"
    /\ response.err = "Ok"
    /\ config # before.storage.config
    /\ proposal_submitted_hooks # <<>>
    /\ released # {}

\* C12: a submit records its deposit only under an id that has no record
\* yet: no successful submit stores its record under an id that already had
\* one, so a record is never overwritten by a later submit.
C12_NoOverwrite ==
    (Submitted /\ response.err = "Ok")
    => ~IsSome(before.storage.deposits[call.next_id])

\* C13: the deposit info of a record is the deposit_info of the config at
\* the moment of the submit that stored it; update_config,
\* update_submission_policy and migrate leave every record as it is; the
\* completion hook pays the amount of the snapshot, in its denomination, to
\* the recipient its refund policy gives, whatever the config says by then.
C13_SnapshotImmutable ==
    /\ (Submitted /\ response.err = "Ok")
       => Get(deposits[call.next_id]).deposit_info = before.storage.config.deposit_info
    /\ call.op \in {"update_config", "update_submission_policy", "migrate",
                    "migrate_extension"}
       => deposits = before.storage.deposits
    /\ (Completed /\ response.err # "NotModule" /\ response.err # "NotCompleted")
       => /\ deposits = before.storage.deposits
          /\ response.msgs =
                 IF HasSnapshot
                 THEN LET rec == Get(RecordAtCall)
                          di == Get(rec.deposit_info)
                      IN  <<TransferMsg(di.denom,
                                        RefundTarget(di.refund_policy, call.new_status,
                                                     rec.proposer, before.storage.dao),
                                        di.amount)>>
                 ELSE <<>>

\* A deposit taken under OnlyPassed by an earlier release went to the DAO
\* when its proposal was closed, after the migration and after the DAO had
\* set the deposit to refund always.
C13_Witness ==
    /\ Completed
    /\ call.new_status = "Closed"
    /\ HasSnapshot
    /\ Get(Get(RecordAtCall).deposit_info).refund_policy = "OnlyPassed"
    /\ ~IsLegacy(config)
    /\ config.deposit_info = Some(DepositInfo(Native("x"), 1, "Always"))
    /\ response.err = "Ok"
    /\ response.msgs # <<>>
    /\ response.msgs[1].to = dao
    /\ call.id \in released

\* The denomination a withdraw is about: the one of the message, else the
\* configured deposit denomination, else none.
WithdrawalDenom ==
    IF IsSome(call.denom) THEN call.denom
    ELSE IF IsSome(before.storage.config.deposit_info)
         THEN Some(Get(before.storage.config.deposit_info).denom)
         ELSE None

\* C14: a withdraw by the DAO fails with NoWithdrawalDenom when neither the
\* message nor the config names a denomination, and with NothingToWithdraw
\* when the balance in the chosen denomination is zero; otherwise it emits
\* exactly one transfer of the full balance to the DAO, after which the
\* balance is zero and a second withdraw fails with NothingToWithdraw.
C14_Withdraw ==
    (call.op = "withdraw" /\ call.sender = before.storage.dao)
    => IF ~IsSome(WithdrawalDenom)
       THEN response = [err |-> "NoWithdrawalDenom", msgs |-> <<>>]
       ELSE IF before.balance[Get(WithdrawalDenom)] = 0
       THEN response = [err |-> "NothingToWithdraw", msgs |-> <<>>]
       ELSE /\ response.err = "Ok"
            /\ response.msgs = <<TransferMsg(Get(WithdrawalDenom), before.storage.dao,
                                              before.balance[Get(WithdrawalDenom)])>>
            /\ queue = <<>>
               => /\ balance[Get(WithdrawalDenom)] = 0
                  /\ execute_withdraw(Storage, dao, call.denom, balance).err
                         = "NothingToWithdraw"

\* The DAO drained the deposits of the configured denomination.
C14_Witness ==
    /\ call.op = "withdraw"
    /\ call.sender = dao
    /\ call.denom = None
    /\ response.err = "Ok"
    /\ queue = <<>>
    /\ before.balance[Native("x")] > 0
    /\ balance[Native("x")] = 0

\* C15: while the stored policy is Anyone, an update_submission_policy from
\* the DAO that carries set_dao_members, allowlist_add or allowlist_remove
\* fails with AnyoneInvalidUpdateFields and leaves the config as it was,
\* also when its denylist changes are valid.
C15_AnyoneRejectsSpecificFields ==
    (/\ call.op = "update_submission_policy"
     /\ call.sender = before.storage.dao
     /\ before.storage.config.submission_policy.kind = "Anyone"
     /\ \/ IsSome(call.set_dao_members)
        \/ IsSome(call.allowlist_add)
        \/ IsSome(call.allowlist_remove))
    => /\ response = [err |-> "AnyoneInvalidUpdateFields", msgs |-> <<>>]
       /\ config = before.storage.config

\* The DAO sent set_dao_members together with a denylist addition that
\* would have been valid on its own.
C15_Witness ==
    /\ call.op = "update_submission_policy"
    /\ config.submission_policy = Anyone({"b"})
    /\ call.denylist_add = Some({"a"})
    /\ call.denylist_remove = None
    /\ call.set_dao_members = Some(TRUE)
    /\ call.allowlist_add = None
    /\ call.allowlist_remove = None
    /\ response.err = "AnyoneInvalidUpdateFields"

PolicyWriters == {"update_config", "update_submission_policy", "migrate"}

\* C16: the stored submission policy passes validation in every state, from
\* instantiation on; an update_config, an update_submission_policy or a
\* migrate whose policy fails validation fails and stores nothing, and one
\* that stored a policy stored a valid one.
C16_StoredPolicyValid ==
    /\ ~IsLegacy(config) => validate(config.submission_policy) = "Ok"
    /\ (call.op \in PolicyWriters /\ response.err = "NoOneAllowed")
       => Storage = before.storage
    /\ (call.op = "migrate" /\ IsSome(call.policy) /\ validate(Get(call.policy)) # "Ok")
       => response.err # "Ok"
    /\ (/\ call.op = "update_config"
        /\ IsSome(call.submission_policy)
        /\ validate(Get(call.submission_policy)) # "Ok")
       => response.err # "Ok"

\* A migration that supplies Specific{dao_members: false, allowlist: []} to
\* a contract of a supported version was refused.
C16_Witness ==
    /\ call.op = "migrate"
    /\ call.policy = Some(Specific(FALSE, {}, {}))
    /\ requirement_matches(contract_version)
    /\ IsLegacy(config)
    /\ response.err = "NoOneAllowed"

\* 2.4.1 <= v < 2.5.0 in the order of versions.
InSupportedRange(v) ==
    /\ ~VersionLess(v, Version(2, 4, 1, FALSE))
    /\ VersionLess(v, Version(2, 5, 0, FALSE))

\* C17: a migrate (FromUnderV250) succeeds only on a stored version v with
\* 2.4.1 <= v < 2.5.0; on every other stored version it fails with
\* CannotMigrateVersion and leaves the config and the stored version as
\* they were.
C17_VersionRange ==
    call.op = "migrate"
    => LET v == before.storage.contract_version
       IN  /\ response.err = "Ok" => InSupportedRange(v)
           /\ ~InSupportedRange(v)
              => /\ response = [err |-> "CannotMigrateVersion", msgs |-> <<>>]
                 /\ config = before.storage.config
                 /\ contract_version = v

\* A contract whose stored version is 2.5.1 was not migrated.
C17_Witness ==
    /\ call.op = "migrate"
    /\ contract_version = Version(2, 5, 1, FALSE)
    /\ response.err = "CannotMigrateVersion"
    /\ config = before.storage.config

RefundPolicyV241Pairs ==
    {<<"AlwaysV241", "Always">>, <<"OnlyPassedV241", "OnlyPassed">>, <<"NeverV241", "Never">>}

DenomKindV241Pairs == {<<"native_v241", "native">>, <<"cw20_v241", "cw20">>}

\* The deposit infos of the legacy and of the migrated config say the same.
SameDeposit(old, new) ==
    IF IsSome(old)
    THEN /\ IsSome(new)
         /\ <<Get(old).denom.kind, Get(new).denom.kind>> \in DenomKindV241Pairs
         /\ Get(old).denom.id = Get(new).denom.id
         /\ Get(old).amount = Get(new).amount
         /\ <<Get(old).refund_policy, Get(new).refund_policy>> \in RefundPolicyV241Pairs
    ELSE new = None

\* C18: a successful migrate stores the policy of the message when it gives
\* one, otherwise Anyone{denylist: []} for a legacy flag
\* open_proposal_submission = true and Specific{dao_members: true,
\* allowlist: [], denylist: []} for false; the stored deposit_info has the
\* denomination, amount and refund policy of the legacy one, None for None.
C18_MigratedConfig ==
    (call.op = "migrate" /\ response.err = "Ok")
    => LET old == before.storage.config
       IN  /\ config.submission_policy =
                  IF IsSome(call.policy) THEN Get(call.policy)
                  ELSE IF old.open_proposal_submission THEN Anyone({})
                  ELSE Specific(TRUE, {}, {})
           /\ SameDeposit(old.deposit_info, config.deposit_info)
           /\ DOMAIN config = {"deposit_info", "submission_policy"}

\* Version 2.4.5 with the flag set and a cw20 deposit was migrated without
\* a policy in the message.
C18_Witness ==
    /\ call.op = "migrate"
    /\ response.err = "Ok"
    /\ call.policy = None
    /\ before.storage.contract_version = Version(2, 4, 5, FALSE)
    /\ before.storage.config.open_proposal_submission
    /\ config = [deposit_info |-> Some(DepositInfo(Cw20("tok"), 1, "Always")),
                 submission_policy |-> Anyone({})]

\* C19: the CanPropose query answers false exactly for the Unauthorized
\* error of the authorization check; on any other error of that check (here
\* the failed query to the voting-power oracle) the query itself fails and
\* answers neither false nor true.
C19_OnlyUnauthorizedIsFalse ==
    call.op = "can_propose"
    => LET r == check_can_submit(config, call.address, call.vp)
       IN  /\ response.value = "false" <=> r = "Unauthorized"
           /\ r \notin {"Ok", "Unauthorized"} => response.value = "error"
           /\ response.value \in {"true", "false", "error"}

\* The oracle did not answer for an address whose right to submit hangs on
\* its voting power.
C19_Witness ==
    /\ call.op = "can_propose"
    /\ ~call.vp.ok
    /\ config.submission_policy.kind = "Specific"
    /\ config.submission_policy.dao_members
    /\ call.address \notin config.submission_policy.denylist
    /\ call.address \notin config.submission_policy.allowlist
    /\ response.value = "error"

\* The gating lifecycle of a proposal id, read off the state: Resolved once
\* its deposit has been released, Submitted while a completion hook from the
\* proposal module would release a deposit for it.
Resolved(id) == id \in released
Resolvable(id) ==
    \E s \in TerminalStatuses :
       execute_proposal_completed_hook(Storage, proposal_module, id, s).msgs # <<>>

\* A release is emitted only for an id that a submit has recorded.
ReleasedAfterSubmit == \A id \in released : IsSome(deposits[id])

\* C20: each id moves None -> Submitted -> Resolved and never back: a
\* deposit is released only for an id that a submit has recorded, and an id
\* whose deposit has been released is not resolvable with a transfer again.
C20_Lifecycle ==
    /\ ReleasedAfterSubmit
    /\ \A id \in ProposalIds : Resolved(id) => ~Resolvable(id)

\* C21: a completion hook from the proposal module with a terminal status
\* succeeds without any outbound message for an id that has no deposit
\* record, and likewise for an id whose record holds no deposit snapshot.
C21_BenignAbsence ==
    (/\ Completed
     /\ call.sender = before.storage.proposal_module
     /\ call.new_status \in TerminalStatuses
     /\ ~HasSnapshot)
    => /\ response = [err |-> "Ok", msgs |-> <<>>]
       /\ queue = <<>>
       /\ balance = before.balance

\* The proposal module reported the end of a proposal it had never asked
\* this contract about.
C21_Witness ==
    /\ Completed
    /\ call.sender = proposal_module
    /\ call.new_status = "Executed"
    /\ ~IsSome(RecordAtCall)
    /\ \E id \in ProposalIds : IsSome(deposits[id])
    /\ response.err = "Ok"

\* The notifications of a response, in the order of the response.
Notifications(msgs) == SelectSeq(msgs, LAMBDA m : m.type = "hook")

\* C22: the hook set never holds an address twice, and add_hook of a
\* registered address fails with HookAlreadyRegistered and changes nothing;
\* a successful submit emits exactly one notification per subscriber
\* registered at that moment, in registration order, each with the payload
\* of the proposal-creation message; after remove_hook the address is not
\* registered, so it is not notified by later submits.
C22_Hooks ==
    /\ \A i, j \in 1..Len(proposal_submitted_hooks) :
          proposal_submitted_hooks[i] = proposal_submitted_hooks[j] => i = j
    /\ (/\ call.op = "add_hook"
        /\ call.sender = before.storage.dao
        /\ call.address \in Range(before.storage.hooks))
       => /\ response = [err |-> "HookAlreadyRegistered", msgs |-> <<>>]
          /\ Storage = before.storage
    /\ (Submitted /\ response.err = "Ok")
       => LET hs == before.storage.hooks
              notes == Notifications(response.msgs)
          IN  /\ response.msgs[1].type = "propose"
              /\ response.msgs[1].payload = call.payload
              /\ Len(notes) = Len(hs)
              /\ \A i \in 1..Len(hs) :
                    /\ notes[i].to = hs[i]
                    /\ notes[i].payload = response.msgs[1].payload
    /\ (call.op = "remove_hook" /\ response.err = "Ok")
       => call.address \notin Range(proposal_submitted_hooks)

\* Two subscribers, the second registered first, are notified in that order
\* by a submit.
C22_Witness ==
    /\ Submitted
    /\ response.err = "Ok"
    /\ before.storage.hooks = <<"b", "a">>
    /\ Len(response.msgs) >= 3
    /\ response.msgs[2] = HookMsg("b", call.payload)
    /\ response.msgs[3] = HookMsg("a", call.payload)

\* The policy stored at the call turns the sender away.
Denied ==
    LET p == before.storage.config.submission_policy
    IN  \/ call.sender \in p.denylist
        \/ ~Authorized(p, call.sender, IF call.vp.ok THEN call.vp.power ELSE 0)

\* A native deposit is required and the funds sent are not exactly it.
Underpaid ==
    LET di == before.storage.config.deposit_info
    IN  /\ IsSome(di)
        /\ Get(di).denom.kind = "native"
        /\ call.funds # Some([denom |-> Get(di).denom.id, amount |-> Get(di).amount])

TransferTypes == {"transfer", "transfer_from"}

\* C23: a submit that the policy turns away fails with Unauthorized, and
\* one whose native funds are of the wrong denom or amount fails with
\* WrongDenom or InvalidDeposit; a failed submit leaves the storage as it
\* was (no record under the next proposal id), keeps no funds and emits no
\* message at all.  A successful submit with no deposit configured emits no
\* message that moves tokens.
C23_FailedSubmit ==
    /\ (Submitted /\ Denied) => response.err = "Unauthorized"
    /\ (Submitted /\ ~Denied /\ Underpaid)
       => response.err \in {"WrongDenom", "InvalidDeposit"}
    /\ (Submitted /\ response.err # "Ok")
       => /\ response.msgs = <<>>
          /\ queue = <<>>
          /\ Storage = before.storage
          /\ deposits[call.next_id] = None
          /\ balance = before.balance
          /\ \A c \in created : c.id # call.next_id
    /\ (Submitted /\ response.err = "Ok" /\ before.storage.config.deposit_info = None)
       => \A i \in 1..Len(response.msgs) : response.msgs[i].type \notin TransferTypes

\* With a subscriber registered and a native deposit required, a sender the
\* policy accepts sent coins of another denomination.
C23_Witness ==
    /\ Submitted
    /\ ~Denied
    /\ Underpaid
    /\ call.funds = WrongDenomFunds
    /\ before.storage.hooks # <<>>
    /\ response.err = "WrongDenom"

\* No query follows a write in a sequence of effects.
QueriesBeforeWrites(es) ==
    \A i, j \in 1..Len(es) :
        (i < j /\ es[i].kind = "write") => es[j].kind # "query"

\* C24: within every invocation all queries to collaborators (Dao,
\* NextProposalId, the voting power, the balance) come before the first
\* write of that invocation to the storage.
C24_QueriesFirst == ~Idle => QueriesBeforeWrites(Effects)

\* The ids with a deposit in denomination d on record whose proposal has not
\* been resolved yet.
Unresolved(d) ==
    {id \in ProposalIds :
        /\ IsSome(deposits[id])
        /\ IsSome(Get(deposits[id]).deposit_info)
        /\ Get(Get(deposits[id]).deposit_info).denom = d
        /\ id \notin released}

RECURSIVE EscrowOf(_)
EscrowOf(ids) ==
    IF ids = {} THEN 0
    ELSE LET id == CHOOSE x \in ids : TRUE
         IN  Get(Get(deposits[id]).deposit_info).amount + EscrowOf(ids \ {id})

\* C25: between transactions the balance of the contract in every
\* denomination is at least the sum of the deposits on record for proposals
\* not yet resolved, so a withdraw by the DAO leaves every pending deposit
\* covered.
C25_EscrowCovered ==
    Idle => \A d \in Denoms : balance[d] >= EscrowOf(Unresolved(d))

ReadOnlyOps == {"completed", "withdraw", "extension"}

\* C26: the completion hook and withdraw leave the storage as it was,
\* whether they succeed or fail: the config, every deposit record (that of
\* the resolved id too), the hook set and the two addresses; the Extension
\* message changes nothing either and sends nothing.
C26_ReadOnlyHandlers ==
    /\ call.op \in ReadOnlyOps
       => /\ Storage = before.storage
          /\ Completed => deposits[call.id] = RecordAtCall
    /\ call.op = "extension"
       => /\ response = [err |-> "Ok", msgs |-> <<>>]
          /\ balance = before.balance
          /\ queue = <<>>

\* The deposit of a proposal has been paid out by its completion hook and
\* its record is still there.
C26_Witness ==
    /\ Completed
    /\ response.err = "Ok"
    /\ queue = <<>>
    /\ call.id \in released \ before.released
    /\ balance # before.balance
    /\ IsSome(deposits[call.id])

\* C27: after a successful update_config the stored deposit_info is the one
\* of the message, so a message without one removes the deposit requirement;
\* the stored policy is the one of the message when it carries one and the
\* policy stored before otherwise; the deposit records and the hook set are
\* as they were.
C27_UpdateConfig ==
    (call.op = "update_config" /\ response.err = "Ok")
    => /\ config.deposit_info = call.deposit_info
       /\ config.submission_policy =
             IF IsSome(call.submission_policy)
             THEN Get(call.submission_policy)
             ELSE before.storage.config.submission_policy
       /\ deposits = before.storage.deposits
       /\ proposal_submitted_hooks = before.storage.hooks

\* With a deposit required, a policy other than the first one, a record and
\* a subscriber in place, the DAO sent an update_config that names neither a
\* deposit nor a policy.
C27_Witness ==
    /\ call.op = "update_config"
    /\ response.err = "Ok"
    /\ call.deposit_info = None
    /\ call.submission_policy = None
    /\ IsSome(before.storage.config.deposit_info)
    /\ config.submission_policy.kind = "Specific"
    /\ \E id \in ProposalIds : IsSome(deposits[id])
    /\ proposal_submitted_hooks # <<>>

\* C28: a successful migrate leaves the deposit records, the hook set and
\* the DAO and proposal-module addresses as they were and stores the current
\* contract version; from then on, as on any stored version that is not
\* below 2.5.0, a FromUnderV250 migrate fails with CannotMigrateVersion.
C28_MigrateFrame ==
    /\ (call.op = "migrate" /\ response.err = "Ok")
       => /\ deposits = before.storage.deposits
          /\ proposal_submitted_hooks = before.storage.hooks
          /\ dao = before.storage.dao
          /\ proposal_module = before.storage.proposal_module
          /\ contract_version = CONTRACT_VERSION
          /\ \A p \in MigratePolicies :
                migrate(Storage, p) = Result("CannotMigrateVersion", <<>>, Storage)
    /\ (/\ call.op = "migrate"
        /\ ~VersionLess(before.storage.contract_version, CONTRACT_VERSION))
       => /\ response = [err |-> "CannotMigrateVersion", msgs |-> <<>>]
          /\ Storage = before.storage

\* A contract that was migrated with the policy Anyone denying b, and has a
\* deposit record, is asked to migrate once more.
C28_Witness ==
    /\ call.op = "migrate"
    /\ response.err = "CannotMigrateVersion"
    /\ before.storage.contract_version = CONTRACT_VERSION
    /\ config.submission_policy = Anyone({"b"})
    /\ \E id \in ProposalIds : IsSome(deposits[id])

====
